---- MODULE Spec2Model ----
(***************************************************************************)
(* DayTraderDiary: the App component (src/unnamed/part_000) as a state     *)
(* machine.  The derived views (summaryEntries, calendarCells,             *)
(* monthSummary, analytics) are operators over the component state, as     *)
(* the useMemo hooks are functions of it.                                  *)
(*                                                                         *)
(* A JavaScript Date is modelled by its time value in minutes since the    *)
(* epoch (UTC); the local time zone is a fixed offset tz, in minutes east  *)
(* of UTC.  A trade date string "YYYY-MM-DD" is the triple <<y, m, d>>.    *)
(* A nullable number is << >> (null) or <<n>>.                             *)
(***************************************************************************)
EXTENDS Integers, Sequences, FiniteSets, TLC

VARIABLES
    now,            \* the value of new Date() during this run
    tz,             \* local offset from UTC, minutes east
    session,        \* useState session: NoSession or a user id
    entries,        \* useState entries: TradeEntry[]
    summaryRange,   \* useState summaryRange
    calendarMonth,  \* useState calendarMonth: a Date
    currentView,    \* useState currentView
    formState,      \* useState formState
    imageFile,      \* useState imageFile
    formError,      \* useState formError
    isSubmitting,   \* useState isSubmitting
    editingEntryId, \* useState editingEntryId
    editDraft,      \* useState editDraft
    isUpdating,     \* useState isUpdating
    editError,      \* useState editError
    isLoading,      \* useState isLoading
    loadError,      \* useState loadError
    trades,         \* the "trades" table of the record store
    blobs,          \* the paths held by the "trade-images" bucket
    nextId,         \* the next id the store assigns
    submitCall,     \* the handleSubmit call in flight, its captured closure
    updateCalls,    \* the handleSaveEdit calls in flight
    loadCalls,      \* the loadEntries calls in flight
    initPending,    \* initSession has not resolved yet
    nextPath,       \* the next random image path
    searchTerm,     \* useState searchTerm
    currentPage,    \* useState currentPage
    loginState,     \* useState loginState
    isLoggingIn,    \* useState isLoggingIn
    loginError,     \* useState loginError
    loginCall,      \* the handleLoginSubmit call in flight, its captured closure
    logoutCalls,    \* the handleLogout calls in flight
    deleteCalls,    \* the handleDeleteEntry calls in flight
    lastDialog      \* the last window.confirm or alert and its answer

vars == <<now, tz, session, entries, summaryRange, calendarMonth, currentView,
          formState, imageFile, formError, isSubmitting, editingEntryId,
          editDraft, isUpdating, editError, isLoading, loadError, trades,
          blobs, nextId, submitCall, updateCalls, loadCalls, initPending,
          nextPath, searchTerm, currentPage, loginState, isLoggingIn,
          loginError, loginCall, logoutCalls, deleteCalls, lastDialog>>

-----------------------------------------------------------------------------
(* Bounds *)

MaxEntries == 2       \* longest record list drawn for the calendar and the range filter
MaxSamples == 3       \* longest record list drawn for the analytics
MaxMonthSteps == 12   \* how far month navigation goes from the start month
MaxRows == 2          \* rows the store holds at most
MaxInFlight == 1      \* handleSaveEdit calls in flight at most
MaxUploads == 1       \* images uploaded at most
MaxDeletes == 2       \* handleDeleteEntry calls in flight at most
MaxLoads == 1         \* loadEntries calls in flight at most
MaxListed == 41       \* longest record list drawn for the list panel

-----------------------------------------------------------------------------
(* JavaScript values *)

NullNum == << >>
Num(n) == <<n>>
IsNull(v) == v = << >>
Val(v) == v[1]

NoSession == "none"
NoString == "<null>"
NoId == 0
NoPath == 0

\* the text of an input of type number: empty, a number, or (where the
\* browser does not sanitise the input) not a number
EmptyText == [kind |-> "empty", value |-> 0]
NumberText(n) == [kind |-> "number", value |-> n]
OtherText == [kind |-> "text", value |-> 0]

NoDraft == [id |-> 0, reason |-> "", reflection |-> "",
            realizedProfitInput |-> EmptyText]
NoCall == [pc |-> "idle", tradeDate |-> <<0, 0, 0>>, profit |-> NullNum,
           imagePath |-> NoPath, hasImage |-> FALSE, id |-> NoId,
           updatedAt |-> 0]

MinPerDay == 24 * 60

\* the text of the search box, of a ticker and of the login inputs: the
\* sequence of its characters
EmptyString == << >>

\* String.prototype.trim
trim(s) ==
    LET inked == {i \in 1..Len(s) : s[i] # " "}
    IN  IF inked = {} THEN EmptyString
        ELSE SubSeq(s, CHOOSE i \in inked : \A j \in inked : i <= j,
                       CHOOSE i \in inked : \A j \in inked : i >= j)

\* String.prototype.toLowerCase, over the letters in use
toLowerCase(s) ==
    [i \in 1..Len(s) |-> CASE s[i] = "T" -> "t"
                           [] s[i] = "U" -> "u"
                           [] OTHER -> s[i]]

\* String.prototype.includes
includes(s, part) ==
    \E i \in 0..(Len(s) - Len(part)) : SubSeq(s, i + 1, i + Len(part)) = part

PAGE_SIZE == 20

-----------------------------------------------------------------------------
(* Date: the proleptic Gregorian calendar of ECMAScript *)

DaysFromCivil(y, m, d) ==
    LET yy  == IF m <= 2 THEN y - 1 ELSE y
        era == yy \div 400
        yoe == yy - era * 400
        mp  == (m + 9) % 12
        doy == (153 * mp + 2) \div 5 + d - 1
        doe == yoe * 365 + yoe \div 4 - yoe \div 100 + doy
    IN  era * 146097 + doe - 719468

CivilFromDays(z) ==
    LET zz  == z + 719468
        era == zz \div 146097
        doe == zz - era * 146097
        yoe == (doe - doe \div 1460 + doe \div 36524 - doe \div 146096) \div 365
        doy == doe - (365 * yoe + yoe \div 4 - yoe \div 100)
        mp  == (5 * doy + 2) \div 153
        d   == doy - (153 * mp + 2) \div 5 + 1
        m   == IF mp < 10 THEN mp + 3 ELSE mp - 9
        y   == yoe + era * 400 + (IF m <= 2 THEN 1 ELSE 0)
    IN  [y |-> y, m |-> m, d |-> d]

\* the dates of the years the model visits, computed once
CivilTable ==
    [z \in DaysFromCivil(2022, 1, 1)..DaysFromCivil(2026, 12, 31) |-> CivilFromDays(z)]

\* the local day number of a time value
LocalDay(t, off) == (t + off) \div MinPerDay

GetFullYear(t, off) == CivilTable[LocalDay(t, off)].y
GetMonth(t, off) == CivilTable[LocalDay(t, off)].m - 1
GetDate(t, off) == CivilTable[LocalDay(t, off)].d
GetDay(t, off) == (LocalDay(t, off) + 4) % 7

\* new Date(year, monthIndex, day): local midnight, out-of-range month and
\* day carried over
MakeDate(y, mi, d, off) ==
    (DaysFromCivil(y + mi \div 12, (mi % 12) + 1, 1) + d - 1) * MinPerDay - off

\* date.setHours(0, 0, 0, 0)
SetHoursZero(t, off) == LocalDay(t, off) * MinPerDay - off

\* date.setDate(n): the day of the month replaced, the local time of day kept
SetDate(t, n, off) ==
    MakeDate(GetFullYear(t, off), GetMonth(t, off), n, off)
        + (t - SetHoursZero(t, off))

\* new Date("YYYY-MM-DD"): a date-only string is midnight UTC
ParseDate(s) == DaysFromCivil(s[1], s[2], s[3]) * MinPerDay

\* a date string as a number that orders the strings as the dates
DateOrd(d) == d[1] * 10000 + d[2] * 100 + d[3]

\* Number.isFinite(entry.realizedProfit), after the null test
IsFiniteProfit(p) == ~IsNull(p)

dateKey(t, off) == <<GetFullYear(t, off), GetMonth(t, off) + 1, GetDate(t, off)>>

-----------------------------------------------------------------------------
(* summaryEntries: the range filter *)

Ranges == {"daily", "weekly", "monthly", "yearly", "all"}

\* the week started on Monday
RangeWindowMondayStart(range, t, off) ==
    LET today == SetHoursZero(t, off)
    IN  CASE range = "daily" ->
               [start |-> today, end |-> today]
          [] range = "weekly" ->
               LET monday == SetDate(today, GetDate(today, off) - GetDay(today, off) + 1, off)
                   sunday == SetDate(monday, GetDate(monday, off) + 6, off)
               IN  [start |-> monday, end |-> sunday]
          [] range = "monthly" ->
               [start |-> MakeDate(GetFullYear(today, off), GetMonth(today, off), 1, off),
                end   |-> MakeDate(GetFullYear(today, off), GetMonth(today, off) + 1, 0, off)]
          [] range = "yearly" ->
               [start |-> MakeDate(GetFullYear(today, off), 0, 1, off),
                end   |-> MakeDate(GetFullYear(today, off), 11, 31, off)]

\* the switch over summaryRange: the window [start, end] of a bounded range
RangeWindow(range, t, off) ==
    LET today == SetHoursZero(t, off)
    IN  CASE range = "daily" ->
               [start |-> today, end |-> today]
          [] range = "weekly" ->
               LET sunday   == SetDate(today, GetDate(today, off) - GetDay(today, off), off)
                   saturday == SetDate(sunday, GetDate(sunday, off) + 6, off)
               IN  [start |-> sunday, end |-> saturday]
          [] range = "monthly" ->
               [start |-> MakeDate(GetFullYear(today, off), GetMonth(today, off), 1, off),
                end   |-> MakeDate(GetFullYear(today, off), GetMonth(today, off) + 1, 0, off)]
          [] range = "yearly" ->
               [start |-> MakeDate(GetFullYear(today, off), 0, 1, off),
                end   |-> MakeDate(GetFullYear(today, off), 11, 31, off)]

\* the predicate of entries.filter
InWindow(entry, w, off) ==
    LET tradeDate == SetHoursZero(ParseDate(entry.tradeDate), off)
    IN  IF tradeDate < w.start THEN FALSE
        ELSE IF tradeDate > w.end THEN FALSE
        ELSE TRUE

\* the filter with no early return for "all": the yearly window applied
summaryEntriesAllYearly(es, range, t, off) ==
    IF Len(es) = 0 THEN << >>
    ELSE LET r == IF range = "all" THEN "yearly" ELSE range
         IN  SelectSeq(es, LAMBDA e : InWindow(e, RangeWindow(r, t, off), off))

summaryEntriesOf(es, range, t, off) ==
    IF Len(es) = 0 THEN << >>
    ELSE IF range \notin {"daily", "weekly", "monthly", "yearly"} THEN es
    ELSE SelectSeq(es, LAMBDA e : InWindow(e, RangeWindow(range, t, off), off))

summaryEntries == summaryEntriesOf(entries, summaryRange, now, tz)

-----------------------------------------------------------------------------
(* filteredEntries and the pages *)

RECURSIVE SortedInsert(_, _)
\* e goes behind every record that the comparator does not put behind it
SortedInsert(e, q) ==
    IF q = << >> THEN <<e>>
    ELSE IF ParseDate(Head(q).tradeDate) >= ParseDate(e.tradeDate)
         THEN <<Head(q)>> \o SortedInsert(e, Tail(q))
         ELSE <<e>> \o q

RECURSIVE SortLoop(_, _, _)
SortLoop(q, i, acc) ==
    IF i > Len(q) THEN acc ELSE SortLoop(q, i + 1, SortedInsert(q[i], acc))

\* [...summaryEntries].sort((a, b) => bTime - aTime): a stable sort of a copy
sortedByDate(q) == SortLoop(q, 1, << >>)

\* [entry.ticker, entry.tickerName].some(value => value.toLowerCase().includes(normalized))
matchesSearch(entry, normalized) ==
    \/ includes(toLowerCase(entry.ticker), normalized)
    \/ includes(toLowerCase(entry.tickerName), normalized)

filteredEntriesOf(se, term) ==
    LET normalized == toLowerCase(trim(term))
        sorted == sortedByDate(se)
    IN  IF normalized = EmptyString THEN sorted
        ELSE SelectSeq(sorted, LAMBDA e : matchesSearch(e, normalized))

filteredEntries == filteredEntriesOf(summaryEntries, searchTerm)

\* Math.max(1, Math.ceil(length / PAGE_SIZE) || 1)
totalPagesOf(length) ==
    LET ceil == (length + PAGE_SIZE - 1) \div PAGE_SIZE
        orOne == IF ceil = 0 THEN 1 ELSE ceil
    IN  IF orOne > 1 THEN orOne ELSE 1

totalPages == totalPagesOf(Len(filteredEntries))

\* filteredEntries.slice(startIndex, startIndex + PAGE_SIZE)
paginatedEntriesOf(fe, page) ==
    LET startIndex == (page - 1) * PAGE_SIZE
        last == IF startIndex + PAGE_SIZE < Len(fe) THEN startIndex + PAGE_SIZE
                ELSE Len(fe)
    IN  SubSeq(fe, startIndex + 1, last)

paginatedEntries == paginatedEntriesOf(filteredEntries, currentPage)

\* the page left where it was, without the effect on totalPages
pageAfterUnclamped(es, range, term, page) == page

\* the effect on totalPages: setCurrentPage(prev => prev > totalPages ? totalPages : prev),
\* for the record list, range and search term after a step
pageAfter(es, range, term, page) ==
    LET total == totalPagesOf(Len(filteredEntriesOf(summaryEntriesOf(es, range, now, tz), term)))
    IN  IF page > total THEN total ELSE page

-----------------------------------------------------------------------------
(* analytics *)

\* a quotient a / b of two counts, kept exact
Quot(a, b) == [num |-> a, den |-> b]
SameNumber(q, r) == q.num * r.den = r.num * q.den

RECURSIVE AnalyticsLoopNullLoss(_, _, _, _, _)
\* the loop counting a record without profit as a sample
AnalyticsLoopNullLoss(se, i, totalProfit, winCount, profitSamples) ==
    IF i > Len(se)
    THEN [totalProfit |-> totalProfit, winCount |-> winCount,
          profitSamples |-> profitSamples]
    ELSE LET p == se[i].realizedProfit
         IN  IF IsNull(p)
             THEN AnalyticsLoopNullLoss(se, i + 1, totalProfit, winCount,
                                        profitSamples + 1)
             ELSE AnalyticsLoopNullLoss(se, i + 1, totalProfit + Val(p),
                                        IF Val(p) > 0 THEN winCount + 1 ELSE winCount,
                                        profitSamples + 1)

RECURSIVE AnalyticsLoop(_, _, _, _, _)
\* summaryEntries.forEach of analytics
AnalyticsLoop(se, i, totalProfit, winCount, profitSamples) ==
    IF i > Len(se)
    THEN [totalProfit |-> totalProfit, winCount |-> winCount,
          profitSamples |-> profitSamples]
    ELSE LET p == se[i].realizedProfit
         IN  IF IsNull(p) \/ ~IsFiniteProfit(p)
             THEN AnalyticsLoop(se, i + 1, totalProfit, winCount, profitSamples)
             ELSE AnalyticsLoop(se, i + 1, totalProfit + Val(p),
                                IF Val(p) > 0 THEN winCount + 1 ELSE winCount,
                                profitSamples + 1)

\* the quotient taken without the test of profitSamples
analyticsUnguarded(se) ==
    LET r == AnalyticsLoop(se, 1, 0, 0, 0)
    IN  [totalTrades |-> Len(se),
         totalProfit |-> r.totalProfit,
         winRate |-> Num(Quot(r.winCount, r.profitSamples)),
         winSampleCount |-> r.profitSamples]

analyticsOf(se) ==
    LET totalTrades == Len(se)
    IN  IF totalTrades = 0
        THEN [totalTrades |-> 0, totalProfit |-> 0,
              winRate |-> Num(Quot(0, 1)), winSampleCount |-> 0]
        ELSE LET r == AnalyticsLoop(se, 1, 0, 0, 0)
             IN  [totalTrades |-> totalTrades,
                  totalProfit |-> r.totalProfit,
                  winRate |-> IF r.profitSamples # 0
                              THEN Num(Quot(r.winCount, r.profitSamples))
                              ELSE Num(Quot(0, 1)),
                  winSampleCount |-> r.profitSamples]

analytics == analyticsOf(summaryEntries)

-----------------------------------------------------------------------------
(* calendarCells and monthSummary *)

RECURSIVE ProfitsLoop(_, _, _, _, _)
\* entries.forEach of the calendar memo: the Map profitsByDate, as a function
\* from date keys to sums
ProfitsLoop(es, i, map, cm, off) ==
    IF i > Len(es) THEN map
    ELSE LET entry == es[i]
             tradeDate == ParseDate(entry.tradeDate)
             key == dateKey(tradeDate, off)
         IN  IF IsNull(entry.realizedProfit) \/ ~IsFiniteProfit(entry.realizedProfit)
             THEN ProfitsLoop(es, i + 1, map, cm, off)
             ELSE IF GetFullYear(tradeDate, off) # GetFullYear(cm, off)
                     \/ GetMonth(tradeDate, off) # GetMonth(cm, off)
             THEN ProfitsLoop(es, i + 1, map, cm, off)
             ELSE ProfitsLoop(es, i + 1,
                     [k \in DOMAIN map \cup {key} |->
                         (IF k \in DOMAIN map THEN map[k] ELSE 0)
                         + (IF k = key THEN Val(entry.realizedProfit) ELSE 0)],
                     cm, off)

profitsByDate(es, cm, off) == ProfitsLoop(es, 1, << >>, cm, off)

RECURSIVE SummaryLoop(_, _, _, _)
\* profitsByDate.forEach: totalProfit and totalLoss
SummaryLoop(map, keys, totalProfit, totalLoss) ==
    IF keys = {} THEN [totalProfit |-> totalProfit, totalLoss |-> totalLoss]
    ELSE LET k == CHOOSE x \in keys : TRUE
             value == map[k]
         IN  IF value > 0
             THEN SummaryLoop(map, keys \ {k}, totalProfit + value, totalLoss)
             ELSE IF value < 0
             THEN SummaryLoop(map, keys \ {k}, totalProfit, totalLoss + value)
             ELSE SummaryLoop(map, keys \ {k}, totalProfit, totalLoss)

RECURSIVE PerRecordLoop(_, _, _, _, _, _)
PerRecordLoop(es, i, totalProfit, totalLoss, cm, off) ==
    IF i > Len(es) THEN [totalProfit |-> totalProfit, totalLoss |-> totalLoss]
    ELSE LET p == es[i].realizedProfit
             tradeDate == ParseDate(es[i].tradeDate)
         IN  IF IsNull(p) \/ GetFullYear(tradeDate, off) # GetFullYear(cm, off)
                \/ GetMonth(tradeDate, off) # GetMonth(cm, off)
             THEN PerRecordLoop(es, i + 1, totalProfit, totalLoss, cm, off)
             ELSE IF Val(p) > 0
             THEN PerRecordLoop(es, i + 1, totalProfit + Val(p), totalLoss, cm, off)
             ELSE PerRecordLoop(es, i + 1, totalProfit, totalLoss + Val(p), cm, off)

\* the summary classified record by record, without netting the day first
monthSummaryPerRecord(es, cm, off) ==
    LET r == PerRecordLoop(es, 1, 0, 0, cm, off)
    IN  [gains |-> r.totalProfit, losses |-> r.totalLoss,
         net |-> r.totalProfit + r.totalLoss]

monthSummaryOf(es, cm, off) ==
    LET map == profitsByDate(es, cm, off)
        r == SummaryLoop(map, DOMAIN map, 0, 0)
    IN  [gains |-> r.totalProfit, losses |-> r.totalLoss,
         net |-> r.totalProfit + r.totalLoss]

\* the trailing loop started one too far
TrailingCellsShort(len) ==
    LET remainder == len % 7
    IN  IF remainder # 0
        THEN [j \in 1..(6 - remainder) |->
                 [key |-> <<"placeholder-end", remainder + j>>,
                  isPlaceholder |-> TRUE, day |-> 0, profit |-> NullNum,
                  isToday |-> FALSE]]
        ELSE << >>

\* the trailing loop without the test of the remainder: a full row is added
\* below a month that already fills its rows
TrailingCellsFullRow(len) ==
    LET remainder == len % 7
    IN  [j \in 1..(7 - remainder) |->
            [key |-> <<"placeholder-end", remainder + j - 1>>,
             isPlaceholder |-> TRUE, day |-> 0, profit |-> NullNum,
             isToday |-> FALSE]]

\* the trailing loop: for (i = remainder; i < 7; i += 1)
TrailingCells(len) ==
    LET remainder == len % 7
    IN  IF remainder # 0
        THEN [j \in 1..(7 - remainder) |->
                 [key |-> <<"placeholder-end", remainder + j - 1>>,
                  isPlaceholder |-> TRUE, day |-> 0, profit |-> NullNum,
                  isToday |-> FALSE]]
        ELSE << >>

\* the loop over the days with cells keyed by their index instead of their
\* date
DayLoopKeyedByIndex(map, year, monthIndex, lastDay, todayKey, off) ==
    [day \in 1..lastDay |->
        LET currentDate == MakeDate(year, monthIndex, day, off)
            key == dateKey(currentDate, off)
        IN  [key |-> <<0, 0, day>>, isPlaceholder |-> FALSE, day |-> day,
             profit |-> IF key \in DOMAIN map THEN Num(map[key]) ELSE NullNum,
             isToday |-> key = todayKey]]

\* the loop over the days of the month: one cell per day
DayLoop(map, year, monthIndex, lastDay, todayKey, off) ==
    [day \in 1..lastDay |->
        LET currentDate == MakeDate(year, monthIndex, day, off)
            key == dateKey(currentDate, off)
        IN  [key |-> key, isPlaceholder |-> FALSE, day |-> day,
             profit |-> IF key \in DOMAIN map THEN Num(map[key]) ELSE NullNum,
             isToday |-> key = todayKey]]

calendarCellsOf(es, cm, t, off) ==
    LET startOfMonth == MakeDate(GetFullYear(cm, off), GetMonth(cm, off), 1, off)
        endOfMonth == MakeDate(GetFullYear(cm, off), GetMonth(cm, off) + 1, 0, off)
        firstWeekday == GetDay(startOfMonth, off)
        leading == [j \in 1..firstWeekday |->
                       [key |-> <<"placeholder-start", j - 1>>,
                        isPlaceholder |-> TRUE, day |-> 0, profit |-> NullNum,
                        isToday |-> FALSE]]
        days == DayLoop(profitsByDate(es, cm, off), GetFullYear(cm, off),
                        GetMonth(cm, off), GetDate(endOfMonth, off),
                        dateKey(t, off), off)
    IN  leading \o days \o TrailingCells(firstWeekday + Len(days))

calendarCells == calendarCellsOf(entries, calendarMonth, now, tz)
monthSummary == monthSummaryOf(entries, calendarMonth, tz)

-----------------------------------------------------------------------------
(* The component state after construction, and the inputs drawn *)

TimeZones == {0 - 300, 0, 540}

\* a TradeEntry, as loadEntries and handleSubmit map a row
Entry(id, tradeDate, ticker, tickerName, profit, reason, reflection, imagePath, updatedAt) ==
    [id |-> id, tradeDate |-> tradeDate, ticker |-> ticker,
     tickerName |-> tickerName, realizedProfit |-> profit, reason |-> reason,
     reflection |-> reflection, imagePath |-> imagePath,
     updatedAt |-> updatedAt]

\* the record lists of at most n records over the given dates and profits,
\* each record with its own id
EntryLists(n, dates, profits) ==
    UNION {{[i \in 1..k |-> Entry(i, f[i][1], <<"T">>, EmptyString, f[i][2], NoString,
                                 NoString, NoPath, 0)] :
               f \in [1..k -> dates \X profits]} : k \in 0..n}

\* the time values of the given local dates at the given minutes of the day
Instants(dates, minutes, off) ==
    {MakeDate(d[1], d[2] - 1, d[3], off) + m : d \in dates, m \in minutes}

\* new Date().toISOString().slice(0, 10): the UTC date
todayString(t) ==
    LET c == CivilTable[t \div MinPerDay] IN <<c.y, c.m, c.d>>

defaultFormState(t) == [tradeDate |-> todayString(t), realizedProfit |-> EmptyText]

defaultLoginState == [email |-> EmptyString, password |-> EmptyString]

NoLogin == [pc |-> "idle", user |-> NoSession]

\* the useState initialisers of App
InitialState ==
    /\ session = NoSession
    /\ entries = << >>
    /\ summaryRange = "daily"
    /\ calendarMonth = MakeDate(GetFullYear(now, tz), GetMonth(now, tz), 1, tz)
    /\ currentView = "dashboard"
    /\ formState = defaultFormState(now)
    /\ imageFile = FALSE
    /\ formError = ""
    /\ isSubmitting = FALSE
    /\ editingEntryId = NoId
    /\ editDraft = NoDraft
    /\ isUpdating = FALSE
    /\ editError = ""
    /\ isLoading = TRUE
    /\ loadError = ""
    /\ submitCall = NoCall
    /\ updateCalls = {}
    /\ loadCalls = {}
    /\ initPending = TRUE
    /\ searchTerm = EmptyString
    /\ currentPage = 1
    /\ loginState = defaultLoginState
    /\ isLoggingIn = FALSE
    /\ loginError = ""
    /\ loginCall = NoLogin
    /\ logoutCalls = 0
    /\ deleteCalls = {}
    /\ lastDialog = "none"

\* a logged-in session whose record list has been loaded
LoadedState(es) ==
    /\ session = "u1"
    /\ entries = es
    /\ summaryRange = "daily"
    /\ calendarMonth = MakeDate(GetFullYear(now, tz), GetMonth(now, tz), 1, tz)
    /\ currentView = "dashboard"
    /\ formState = defaultFormState(now)
    /\ imageFile = FALSE
    /\ formError = ""
    /\ isSubmitting = FALSE
    /\ editingEntryId = NoId
    /\ editDraft = NoDraft
    /\ isUpdating = FALSE
    /\ editError = ""
    /\ isLoading = FALSE
    /\ loadError = ""
    /\ submitCall = NoCall
    /\ updateCalls = {}
    /\ loadCalls = {}
    /\ trades = es
    /\ blobs = {es[i].imagePath : i \in 1..Len(es)} \ {NoPath}
    /\ nextId = Len(es) + 1
    /\ initPending = FALSE
    /\ nextPath = 1
    /\ searchTerm = EmptyString
    /\ currentPage = 1
    /\ loginState = defaultLoginState
    /\ isLoggingIn = FALSE
    /\ loginError = ""
    /\ loginCall = NoLogin
    /\ logoutCalls = 0
    /\ deleteCalls = {}
    /\ lastDialog = "none"

CalendarToday == {<<2024, 3, 1>>}
CalendarDates == {<<2024, 2, 29>>, <<2024, 3, 1>>}
CalendarProfits == {NullNum, Num(0 - 200), Num(0), Num(500)}

InitCalendar ==
    /\ tz \in TimeZones
    /\ now \in Instants(CalendarToday, {630}, tz)
    /\ \E es \in EntryLists(MaxEntries, CalendarDates, CalendarProfits) : LoadedState(es)

RangeToday == {<<2023, 12, 30>>, <<2023, 12, 31>>, <<2024, 1, 1>>, <<2024, 1, 6>>,
               <<2024, 2, 29>>, <<2024, 3, 1>>, <<2024, 3, 31>>, <<2024, 12, 31>>}
RangeDates == {<<2023, 12, 31>>, <<2024, 1, 1>>, <<2024, 1, 31>>, <<2024, 2, 1>>,
               <<2024, 12, 31>>, <<2025, 1, 1>>}
RangeProfits == {NullNum, Num(100)}

InitRange ==
    /\ tz \in TimeZones
    /\ now \in Instants(RangeToday, {0, 1439}, tz)
    /\ \E es \in EntryLists(MaxEntries, RangeDates, RangeProfits) : LoadedState(es)

AnalyticsToday == {<<2024, 1, 1>>}
AnalyticsDates == {<<2023, 12, 31>>, <<2024, 1, 1>>}
AnalyticsProfits == {NullNum, Num(0 - 50), Num(0), Num(100)}

InitAnalytics ==
    /\ tz \in TimeZones
    /\ now \in Instants(AnalyticsToday, {630}, tz)
    /\ \E es \in EntryLists(MaxSamples, AnalyticsDates, AnalyticsProfits) : LoadedState(es)

-----------------------------------------------------------------------------
(* View state *)

pageVars == <<searchTerm, currentPage>>
authVars == <<loginState, isLoggingIn, loginError, loginCall, logoutCalls>>
deleteVars == <<deleteCalls, lastDialog>>

viewOther == <<now, tz, session, entries, currentView, formState, imageFile,
               formError, isSubmitting, editingEntryId, editDraft, isUpdating,
               editError, isLoading, loadError, trades, blobs, nextId,
               submitCall, updateCalls, loadCalls, initPending, nextPath,
               loginState, isLoggingIn, loginError, loginCall, logoutCalls,
               deleteCalls, lastDialog>>

MonthIndex(t, off) == GetFullYear(t, off) * 12 + GetMonth(t, off)

goToPrevMonth ==
    /\ MonthIndex(calendarMonth, tz) > MonthIndex(now, tz) - MaxMonthSteps
    /\ calendarMonth' = MakeDate(GetFullYear(calendarMonth, tz),
                                 GetMonth(calendarMonth, tz) - 1, 1, tz)
    /\ UNCHANGED <<viewOther, summaryRange, pageVars>>

goToNextMonth ==
    /\ MonthIndex(calendarMonth, tz) < MonthIndex(now, tz) + MaxMonthSteps
    /\ calendarMonth' = MakeDate(GetFullYear(calendarMonth, tz),
                                 GetMonth(calendarMonth, tz) + 1, 1, tz)
    /\ UNCHANGED <<viewOther, summaryRange, pageVars>>

goToCurrentMonth ==
    /\ calendarMonth' = MakeDate(GetFullYear(now, tz), GetMonth(now, tz), 1, tz)
    /\ UNCHANGED <<viewOther, summaryRange, pageVars>>

setSummaryRange(r) ==
    /\ summaryRange' = r
    /\ currentPage' = IF r = summaryRange THEN currentPage ELSE 1
    /\ UNCHANGED <<viewOther, calendarMonth, searchTerm>>

NextCalendar == goToPrevMonth \/ goToNextMonth \/ goToCurrentMonth
NextRange == \E r \in Ranges : setSummaryRange(r)

SpecCalendar == InitCalendar /\ [][NextCalendar]_vars
SpecRange == InitRange /\ [][NextRange]_vars
SpecAnalytics == InitAnalytics /\ [][NextRange]_vars

-----------------------------------------------------------------------------
(* Session, routing and loadEntries *)

isLoggedIn == session # NoSession

\* the routing effect without its branch for a logged-in user on "login"
RoutedLoginKept(view, loading, sess) ==
    IF loading THEN view
    ELSE IF sess = NoSession THEN "login"
    ELSE view

\* the view routing effect, once it has settled
Routed(view, loading, sess) ==
    IF loading THEN view
    ELSE IF sess = NoSession THEN "login"
    ELSE IF view = "login" THEN "dashboard"
    ELSE view

\* resetForm
resetForm ==
    /\ formState' = defaultFormState(now)
    /\ imageFile' = FALSE
    /\ formError' = ""

\* closeEditEntry, as a handler and as the end of handleSaveEdit
closeEditState ==
    /\ editingEntryId' = NoId
    /\ editDraft' = NoDraft
    /\ editError' = ""
    /\ isUpdating' = FALSE

formVars == <<formState, imageFile, formError, isSubmitting>>
editVars == <<editingEntryId, editDraft, isUpdating, editError>>
storeVars == <<trades, blobs, nextId, nextPath>>
envVars == <<now, tz, summaryRange, calendarMonth>>

\* the numbers in 1..max that no call in flight carries
FreeSlots(calls, max) == {n \in 1..max : \A c \in calls : c.n # n}
FirstOf(slots) == CHOOSE n \in slots : \A m \in slots : n <= m

\* loadEntries with a user, up to its await
startLoad(user) ==
    /\ FreeSlots(loadCalls, MaxLoads) # {}
    /\ isLoading' = TRUE
    /\ loadError' = ""
    /\ loadCalls' = loadCalls \cup
          {[user |-> user, n |-> FirstOf(FreeSlots(loadCalls, MaxLoads))]}

\* initSession: getSession resolves; with a user the effect on session
\* starts loadEntries
initSession(s) ==
    /\ initPending
    /\ initPending' = FALSE
    /\ session' = s
    /\ IF s # NoSession
       THEN startLoad(s)
       ELSE /\ isLoading' = FALSE
            /\ UNCHANGED <<loadCalls, loadError>>
    /\ currentView' = Routed(currentView, isLoading', s)
    /\ UNCHANGED <<entries, formVars, editVars, storeVars, envVars, pageVars,
                   authVars, deleteVars, submitCall, updateCalls>>

\* the onAuthStateChange subscription: setSession(nextSession); a session
\* with a user is a new object, so the effect on session?.user starts
\* loadEntries
onAuthStateChange(s) ==
    /\ s # NoSession \/ session # NoSession
    /\ session' = s
    /\ IF s # NoSession
       THEN startLoad(s)
       ELSE UNCHANGED <<isLoading, loadError, loadCalls>>
    /\ currentView' = Routed(currentView, isLoading', s)
    /\ UNCHANGED <<entries, formVars, editVars, storeVars, envVars, pageVars,
                   authVars, deleteVars, submitCall, updateCalls, initPending>>

\* the rows as the select returns them: ordered by trade_date, descending
IsSortedDesc(q) ==
    \A i \in 1..(Len(q) - 1) : DateOrd(q[i].tradeDate) >= DateOrd(q[i + 1].tradeDate)

Orderings(rows) ==
    {[i \in 1..Len(rows) |-> rows[f[i]]] :
        f \in {g \in [1..Len(rows) -> 1..Len(rows)] :
                  \A a, b \in 1..Len(rows) : a # b => g[a] # g[b]}}

\* loadEntries, the select answered with rows
loadEntriesOk(call) ==
    /\ call \in loadCalls
    /\ loadCalls' = loadCalls \ {call}
    /\ \E q \in Orderings(trades) : IsSortedDesc(q) /\ entries' = q
    /\ isLoading' = FALSE
    /\ currentView' = Routed(currentView, FALSE, session)
    /\ currentPage' = pageAfter(entries', summaryRange, searchTerm, currentPage)
    /\ UNCHANGED <<session, loadError, formVars, editVars, storeVars, envVars,
                   searchTerm, authVars, deleteVars, submitCall, updateCalls,
                   initPending>>

\* a loadEntries whose catch keeps the list it had (without setEntries([]))
loadEntriesKeepsList(call) ==
    /\ call \in loadCalls
    /\ loadCalls' = loadCalls \ {call}
    /\ loadError' = "load failed"
    /\ isLoading' = FALSE
    /\ currentView' = Routed(currentView, FALSE, session)
    /\ UNCHANGED <<session, entries, formVars, editVars, storeVars, envVars,
                   pageVars, authVars, deleteVars, submitCall, updateCalls,
                   initPending>>

\* loadEntries, the select answered with an error: the branch sets
\* loadError, empties the list and clears isLoading
loadEntriesFailed(call) ==
    /\ call \in loadCalls
    /\ loadCalls' = loadCalls \ {call}
    /\ loadError' = "load failed"
    /\ entries' = << >>
    /\ isLoading' = FALSE
    /\ currentView' = Routed(currentView, FALSE, session)
    /\ currentPage' = pageAfter(entries', summaryRange, searchTerm, currentPage)
    /\ UNCHANGED <<session, formVars, editVars, storeVars, envVars,
                   searchTerm, authVars, deleteVars, submitCall, updateCalls,
                   initPending>>

-----------------------------------------------------------------------------
(* The navigation bar *)

\* onClick={() => setCurrentView("dashboard")}
openDashboard ==
    /\ isLoggedIn
    /\ currentView' = Routed("dashboard", isLoading, session)
    /\ UNCHANGED <<session, entries, formVars, editVars, isLoading, loadError,
                   storeVars, envVars, pageVars, authVars, deleteVars,
                   submitCall, updateCalls, loadCalls, initPending>>

openCalendarScreen ==
    /\ isLoggedIn
    /\ currentView' = Routed("calendar", isLoading, session)
    /\ UNCHANGED <<session, entries, formVars, editVars, isLoading, loadError,
                   storeVars, envVars, pageVars, authVars, deleteVars,
                   submitCall, updateCalls, loadCalls, initPending>>

\* onClick={() => setCurrentView("login")}, shown without a session
openLogin ==
    /\ ~isLoggedIn
    /\ currentView' = Routed("login", isLoading, session)
    /\ UNCHANGED <<session, entries, formVars, editVars, isLoading, loadError,
                   storeVars, envVars, pageVars, authVars, deleteVars,
                   submitCall, updateCalls, loadCalls, initPending>>

-----------------------------------------------------------------------------
(* The new-entry form and handleSubmit *)

ProfitInputs == {EmptyText, NumberText(100)}
EditInputs == {NumberText(0 - 50), OtherText}
EditReasons == {"r1"}
EditReflections == {"f1"}
ErrorMessages == {"", "request failed"}
Stamps == {1}
UploadMessages == {"request failed"}

openFormScreen ==
    /\ isLoggedIn
    /\ resetForm
    /\ currentView' = Routed("newEntry", isLoading, session)
    /\ UNCHANGED <<session, entries, isSubmitting, editVars, isLoading, loadError,
                   storeVars, envVars, pageVars, authVars, deleteVars,
                   submitCall, updateCalls, loadCalls, initPending>>

handleInputChange(date, profit) ==
    /\ currentView = "newEntry" /\ isLoggedIn
    /\ formState' = [tradeDate |-> date, realizedProfit |-> profit]
    /\ UNCHANGED <<session, entries, currentView, imageFile, formError,
                   isSubmitting, editVars, isLoading, loadError, storeVars,
                   envVars, pageVars, authVars, deleteVars, submitCall,
                   updateCalls, loadCalls, initPending>>

handleImageChange(file) ==
    /\ currentView = "newEntry" /\ isLoggedIn
    /\ imageFile' = file
    /\ UNCHANGED <<session, entries, currentView, formState, formError,
                   isSubmitting, editVars, isLoading, loadError, storeVars,
                   envVars, pageVars, authVars, deleteVars, submitCall,
                   updateCalls, loadCalls, initPending>>

\* onCancel: resetForm(), setCurrentView("dashboard")
cancelForm ==
    /\ currentView = "newEntry" /\ isLoggedIn
    /\ resetForm
    /\ currentView' = Routed("dashboard", isLoading, session)
    /\ UNCHANGED <<session, entries, isSubmitting, editVars, isLoading, loadError,
                   storeVars, envVars, pageVars, authVars, deleteVars,
                   submitCall, updateCalls, loadCalls, initPending>>

\* hasProfitInput && Number.isFinite(profitCandidate) ? profitCandidate : null
profitValueOf(text) ==
    IF text.kind # "empty" /\ text.kind = "number" THEN Num(text.value) ELSE NullNum

\* handleSubmit up to its first await; without an image file
\* uploadImageIfNeeded returns at once and the insert is issued
handleSubmit ==
    /\ currentView = "newEntry" /\ isLoggedIn
    /\ ~isSubmitting
    /\ submitCall.pc = "idle"
    /\ IF session = NoSession
       THEN /\ formError' = "login required"
            /\ UNCHANGED <<isSubmitting, submitCall>>
       ELSE /\ isSubmitting' = TRUE
            /\ formError' = ""
            /\ submitCall' = [NoCall EXCEPT
                                 !.pc = IF imageFile THEN "upload" ELSE "insert",
                                 !.tradeDate = formState.tradeDate,
                                 !.profit = profitValueOf(formState.realizedProfit),
                                 !.hasImage = imageFile]
    /\ UNCHANGED <<session, entries, currentView, formState, imageFile,
                   editVars, isLoading, loadError, storeVars, envVars, pageVars,
                   authVars, deleteVars, updateCalls, loadCalls, initPending>>

\* uploadImageIfNeeded: the upload answered without error
uploadOk ==
    /\ submitCall.pc = "upload"
    /\ nextPath <= MaxUploads
    /\ blobs' = blobs \cup {nextPath}
    /\ nextPath' = nextPath + 1
    /\ submitCall' = [submitCall EXCEPT !.pc = "insert", !.imagePath = nextPath]
    /\ UNCHANGED <<session, entries, currentView, formVars, editVars, isLoading,
                   loadError, trades, nextId, envVars, pageVars, authVars,
                   deleteVars, updateCalls, loadCalls, initPending>>

\* uploadImageIfNeeded swallowing the error: the insert goes on without an image
uploadFailedInserts(message) ==
    /\ submitCall.pc = "upload"
    /\ submitCall' = [submitCall EXCEPT !.pc = "insert"]
    /\ UNCHANGED <<session, entries, currentView, formVars, editVars, isLoading,
                   loadError, storeVars, envVars, pageVars, authVars,
                   deleteVars, updateCalls, loadCalls, initPending>>

\* uploadImageIfNeeded throws; catch and finally of handleSubmit
uploadFailed(message) ==
    /\ submitCall.pc = "upload"
    /\ formError' = "upload failed: request failed"
    /\ isSubmitting' = FALSE
    /\ submitCall' = NoCall
    /\ UNCHANGED <<session, entries, currentView, formState, imageFile,
                   editVars, isLoading, loadError, storeVars, envVars, pageVars,
                   authVars, deleteVars, updateCalls, loadCalls, initPending>>

\* error?.message ?? fallback
messageOr(outcome, fallback) ==
    IF outcome.error THEN outcome.message ELSE fallback

\* the answers of a failed insert or update: an error with its message, or
\* neither error nor row
Failures ==
    {[error |-> TRUE, message |-> m] : m \in ErrorMessages}
        \cup {[error |-> FALSE, message |-> ""]}

\* the TradeEntry handleSubmit maps from the row the insert returns
rowOf(call) ==
    Entry(call.id, call.tradeDate, <<"T">>, EmptyString, call.profit, NoString,
          NoString, call.imagePath, call.updatedAt)

\* the store runs the insert of handleSubmit; its answer is on the way
insertCommit(stamp) ==
    /\ submitCall.pc = "insert"
    /\ Len(trades) < MaxRows
    /\ submitCall' = [submitCall EXCEPT !.pc = "inserted", !.id = nextId,
                                        !.updatedAt = stamp]
    /\ trades' = Append(trades, rowOf(submitCall'))
    /\ nextId' = nextId + 1
    /\ UNCHANGED <<session, entries, currentView, formVars, editVars, isLoading,
                   loadError, blobs, nextPath, envVars, pageVars, authVars,
                   deleteVars, updateCalls, loadCalls, initPending>>

\* handleSubmit after the insert answered with a row
insertOk ==
    /\ submitCall.pc = "inserted"
    /\ entries' = <<rowOf(submitCall)>> \o entries
    /\ resetForm
    /\ currentView' = Routed("dashboard", isLoading, session)
    /\ isSubmitting' = FALSE
    /\ submitCall' = NoCall
    /\ currentPage' = pageAfter(entries', summaryRange, searchTerm, currentPage)
    /\ UNCHANGED <<session, editVars, isLoading, loadError, storeVars, envVars,
                   searchTerm, authVars, deleteVars, updateCalls, loadCalls,
                   initPending>>

\* the throw and the catch of handleSubmit without its finally: the form
\* stays busy
insertFailedStaysBusy(outcome) ==
    /\ submitCall.pc = "insert"
    /\ formError' = messageOr(outcome, "save failed")
    /\ submitCall' = NoCall
    /\ UNCHANGED <<session, entries, currentView, formState, imageFile,
                   isSubmitting, editVars, isLoading, loadError, storeVars,
                   envVars, pageVars, authVars, deleteVars, updateCalls,
                   loadCalls, initPending>>

\* handleSubmit after the insert answered with an error or without a row:
\* the throw, catch and finally
insertFailed(outcome) ==
    /\ submitCall.pc = "insert"
    /\ formError' = messageOr(outcome, "save failed")
    /\ isSubmitting' = FALSE
    /\ submitCall' = NoCall
    /\ UNCHANGED <<session, entries, currentView, formState, imageFile,
                   editVars, isLoading, loadError, storeVars, envVars, pageVars,
                   authVars, deleteVars, updateCalls, loadCalls, initPending>>

-----------------------------------------------------------------------------
(* The edit modal and handleSaveEdit *)

isOpen == editingEntryId # NoId /\ editDraft # NoDraft

\* String(entry.realizedProfit), or "" for null
profitInputOf(p) == IF IsNull(p) THEN EmptyText ELSE NumberText(Val(p))

\* entry.reason ?? ""
textOf(t) == IF t = NoString THEN "" ELSE t

\* the records the list panel shows, each with its buttons
listShown ==
    IF currentView = "dashboard" /\ isLoggedIn /\ ~isLoading
    THEN paginatedEntries ELSE << >>

openEditEntry(entry) ==
    /\ \E i \in 1..Len(listShown) : listShown[i] = entry
    /\ editingEntryId' = entry.id
    /\ editDraft' = [id |-> entry.id,
                     reason |-> textOf(entry.reason),
                     reflection |-> textOf(entry.reflection),
                     realizedProfitInput |-> profitInputOf(entry.realizedProfit)]
    /\ editError' = ""
    /\ UNCHANGED <<session, entries, currentView, formVars, isUpdating,
                   isLoading, loadError, storeVars, envVars, pageVars, authVars,
                   deleteVars, submitCall, updateCalls, loadCalls, initPending>>

closeEditEntry ==
    /\ isOpen
    /\ closeEditState
    /\ UNCHANGED <<session, entries, currentView, formVars, isLoading,
                   loadError, storeVars, envVars, pageVars, authVars,
                   deleteVars, submitCall, updateCalls, loadCalls, initPending>>

\* setEditDraft(prev => ({ ...prev, [name]: value }))
handleEditChange(name, value) ==
    /\ isOpen
    /\ editDraft' = [editDraft EXCEPT ![name] = value]
    /\ UNCHANGED <<session, entries, currentView, formVars, editingEntryId,
                   isUpdating, editError, isLoading, loadError, storeVars,
                   envVars, pageVars, authVars, deleteVars, submitCall,
                   updateCalls, loadCalls, initPending>>

\* reason.trim() || null
textOrNull(t) == IF t = "" THEN NoString ELSE t

\* handleSaveEdit up to its await
handleSaveEdit ==
    /\ isOpen /\ ~isUpdating
    /\ Cardinality(updateCalls) < MaxInFlight
    /\ IF editDraft.realizedProfitInput.kind = "text"
       THEN /\ editError' = "profit must be a number"
            /\ UNCHANGED <<isUpdating, updateCalls>>
       ELSE /\ isUpdating' = TRUE
            /\ editError' = ""
            /\ updateCalls' = updateCalls \cup
                  {[id |-> editingEntryId,
                    reason |-> textOrNull(editDraft.reason),
                    reflection |-> textOrNull(editDraft.reflection),
                    profit |-> IF editDraft.realizedProfitInput.kind = "empty"
                               THEN NullNum
                               ELSE Num(editDraft.realizedProfitInput.value)]}
    /\ UNCHANGED <<session, entries, currentView, formVars, editingEntryId,
                   editDraft, isLoading, loadError, storeVars, envVars, pageVars,
                   authVars, deleteVars, submitCall, loadCalls, initPending>>

\* the patch without the test of the id: every record takes the new values
PatchedEvery(rows, call, stamp) ==
    [i \in 1..Len(rows) |->
        [rows[i] EXCEPT !.reason = call.reason,
                        !.reflection = call.reflection,
                        !.realizedProfit = call.profit,
                        !.updatedAt = stamp]]

\* the patch of setEntries in handleSaveEdit, and of the store's update
Patched(rows, call, stamp) ==
    [i \in 1..Len(rows) |->
        IF rows[i].id = call.id
        THEN [rows[i] EXCEPT !.reason = call.reason,
                             !.reflection = call.reflection,
                             !.realizedProfit = call.profit,
                             !.updatedAt = stamp]
        ELSE rows[i]]

\* handleSaveEdit after the update answered with the row
updateOk(call, stamp) ==
    /\ call \in updateCalls
    /\ \E i \in 1..Len(trades) : trades[i].id = call.id
    /\ updateCalls' = updateCalls \ {call}
    /\ trades' = Patched(trades, call, stamp)
    /\ entries' = Patched(entries, call, stamp)
    /\ closeEditState
    /\ currentPage' = pageAfter(entries', summaryRange, searchTerm, currentPage)
    /\ UNCHANGED <<session, currentView, formVars, isLoading, loadError, blobs,
                   nextId, nextPath, envVars, searchTerm, authVars, deleteVars,
                   submitCall, loadCalls, initPending>>

\* handleSaveEdit after the update answered with an error or without a row
updateFailed(call, outcome) ==
    /\ call \in updateCalls
    /\ updateCalls' = updateCalls \ {call}
    /\ editError' = messageOr(outcome, "update failed")
    /\ isUpdating' = FALSE
    /\ UNCHANGED <<session, entries, currentView, formVars, editingEntryId,
                   editDraft, isLoading, loadError, storeVars, envVars, pageVars,
                   authVars, deleteVars, submitCall, loadCalls, initPending>>

-----------------------------------------------------------------------------
(* handleDeleteEntry *)

\* prev.filter(entry => entry.id !== entryId)
withoutId(rows, id) == SelectSeq(rows, LAMBDA e : e.id # id)

\* handleDeleteEntry up to its await: window.confirm, then the delete is issued
handleDeleteEntry(entry, confirmed) ==
    /\ \E i \in 1..Len(listShown) : listShown[i] = entry
    /\ lastDialog' = IF confirmed THEN "confirmed" ELSE "declined"
    /\ IF confirmed
       THEN /\ FreeSlots(deleteCalls, MaxDeletes) # {}
            /\ deleteCalls' = deleteCalls \cup
                  {[n |-> FirstOf(FreeSlots(deleteCalls, MaxDeletes)),
                    pc |-> "delete", id |-> entry.id,
                    imagePath |-> entry.imagePath]}
       ELSE UNCHANGED deleteCalls
    /\ UNCHANGED <<session, entries, currentView, formVars, editVars, isLoading,
                   loadError, storeVars, envVars, pageVars, authVars,
                   submitCall, updateCalls, loadCalls, initPending>>

\* the delete answered without error: with an image path the removal of the
\* image is issued, without one the record leaves the list
deleteOk(call) ==
    /\ call \in deleteCalls /\ call.pc = "delete"
    /\ trades' = withoutId(trades, call.id)
    /\ IF call.imagePath # NoPath
       THEN /\ deleteCalls' = (deleteCalls \ {call}) \cup {[call EXCEPT !.pc = "remove"]}
            /\ UNCHANGED <<entries, currentPage>>
       ELSE /\ deleteCalls' = deleteCalls \ {call}
            /\ entries' = withoutId(entries, call.id)
            /\ currentPage' = pageAfter(entries', summaryRange, searchTerm, currentPage)
    /\ UNCHANGED <<session, currentView, formVars, editVars, isLoading,
                   loadError, blobs, nextId, nextPath, envVars, searchTerm,
                   authVars, lastDialog, submitCall, updateCalls, loadCalls,
                   initPending>>

\* the delete answered with an error: console.error, alert, return
deleteFailed(call) ==
    /\ call \in deleteCalls /\ call.pc = "delete"
    /\ deleteCalls' = deleteCalls \ {call}
    /\ lastDialog' = "alert"
    /\ UNCHANGED <<session, entries, currentView, formVars, editVars, isLoading,
                   loadError, storeVars, envVars, pageVars, authVars,
                   submitCall, updateCalls, loadCalls, initPending>>

\* the removal of the image answered without error
removeOk(call) ==
    /\ call \in deleteCalls /\ call.pc = "remove"
    /\ deleteCalls' = deleteCalls \ {call}
    /\ blobs' = blobs \ {call.imagePath}
    /\ entries' = withoutId(entries, call.id)
    /\ currentPage' = pageAfter(entries', summaryRange, searchTerm, currentPage)
    /\ UNCHANGED <<session, currentView, formVars, editVars, isLoading,
                   loadError, trades, nextId, nextPath, envVars, searchTerm,
                   authVars, lastDialog, submitCall, updateCalls, loadCalls,
                   initPending>>

\* the storage error ending the handler: the record stays in the list
removeFailedReturns(call) ==
    /\ call \in deleteCalls /\ call.pc = "remove"
    /\ deleteCalls' = deleteCalls \ {call}
    /\ UNCHANGED <<session, entries, currentView, formVars, editVars, isLoading,
                   loadError, storeVars, envVars, pageVars, authVars,
                   lastDialog, submitCall, updateCalls, loadCalls, initPending>>

\* the removal of the image answered with an error: console.warn only
removeFailed(call) ==
    /\ call \in deleteCalls /\ call.pc = "remove"
    /\ deleteCalls' = deleteCalls \ {call}
    /\ entries' = withoutId(entries, call.id)
    /\ currentPage' = pageAfter(entries', summaryRange, searchTerm, currentPage)
    /\ UNCHANGED <<session, currentView, formVars, editVars, isLoading,
                   loadError, storeVars, envVars, searchTerm, authVars,
                   lastDialog, submitCall, updateCalls, loadCalls, initPending>>

-----------------------------------------------------------------------------
(* The login view, handleLoginSubmit and handleLogout *)

LoginEmails == {<<"U">>}
LoginPasswords == {<<"p">>}
LoginMessages == {"", "invalid credentials"}

\* setLoginState(prev => ({ ...prev, [name]: value }))
handleLoginChange(name, value) ==
    /\ currentView = "login"
    /\ loginState' = [loginState EXCEPT ![name] = value]
    /\ UNCHANGED <<session, entries, currentView, formVars, editVars, isLoading,
                   loadError, storeVars, envVars, pageVars, isLoggingIn,
                   loginError, loginCall, logoutCalls, deleteVars, submitCall,
                   updateCalls, loadCalls, initPending>>

\* handleLoginSubmit up to its await; both inputs are required, and the
\* call keeps the loadEntries of the render it was made in
handleLoginSubmit ==
    /\ currentView = "login"
    /\ ~isLoggingIn
    /\ loginCall.pc = "idle"
    /\ loginState.email # EmptyString /\ loginState.password # EmptyString
    /\ IF trim(loginState.email) = EmptyString \/ loginState.password = EmptyString
       THEN /\ loginError' = "email and password required"
            /\ UNCHANGED <<isLoggingIn, loginCall>>
       ELSE /\ isLoggingIn' = TRUE
            /\ loginError' = ""
            /\ loginCall' = [pc |-> "signIn", user |-> session]
    /\ UNCHANGED <<session, entries, currentView, formVars, editVars, isLoading,
                   loadError, storeVars, envVars, pageVars, loginState,
                   logoutCalls, deleteVars, submitCall, updateCalls, loadCalls,
                   initPending>>

\* signInWithPassword answered without error; loadEntries is the one of the
\* render of the submit: without a user there it empties the list
loginOk ==
    /\ loginCall.pc = "signIn"
    /\ loginCall' = NoLogin
    /\ loginState' = defaultLoginState
    /\ isLoggingIn' = FALSE
    /\ IF loginCall.user = NoSession
       THEN /\ entries' = << >>
            /\ isLoading' = FALSE
            /\ UNCHANGED <<loadError, loadCalls>>
       ELSE /\ startLoad(loginCall.user)
            /\ UNCHANGED entries
    /\ currentView' = Routed("dashboard", isLoading', session)
    /\ currentPage' = pageAfter(entries', summaryRange, searchTerm, currentPage)
    /\ UNCHANGED <<session, formVars, editVars, storeVars, envVars, searchTerm,
                   loginError, logoutCalls, deleteVars, submitCall, updateCalls,
                   initPending>>

\* error.message || fallback
loginFailed(message) ==
    /\ loginCall.pc = "signIn"
    /\ loginCall' = NoLogin
    /\ loginError' = IF message = "" THEN "login failed" ELSE message
    /\ isLoggingIn' = FALSE
    /\ UNCHANGED <<session, entries, currentView, formVars, editVars, isLoading,
                   loadError, storeVars, envVars, pageVars, loginState,
                   logoutCalls, deleteVars, submitCall, updateCalls, loadCalls,
                   initPending>>

\* handleLogout up to its await
handleLogout ==
    /\ isLoggedIn
    /\ logoutCalls < MaxInFlight
    /\ logoutCalls' = logoutCalls + 1
    /\ UNCHANGED <<session, entries, currentView, formVars, editVars, isLoading,
                   loadError, storeVars, envVars, pageVars, loginState,
                   isLoggingIn, loginError, loginCall, deleteVars, submitCall,
                   updateCalls, loadCalls, initPending>>

\* signOut answered without error: the subscription sets the session to
\* null, then the handler clears the component state
logoutOk ==
    /\ logoutCalls > 0
    /\ logoutCalls' = logoutCalls - 1
    /\ session' = NoSession
    /\ entries' = << >>
    /\ resetForm
    /\ loginState' = defaultLoginState
    /\ calendarMonth' = MakeDate(GetFullYear(now, tz), GetMonth(now, tz), 1, tz)
    /\ isLoading' = FALSE
    /\ currentView' = Routed("login", FALSE, NoSession)
    /\ currentPage' = pageAfter(entries', summaryRange, searchTerm, currentPage)
    /\ UNCHANGED <<isSubmitting, editVars, loadError, storeVars, now, tz,
                   summaryRange, searchTerm, isLoggingIn, loginError, loginCall,
                   deleteVars, submitCall, updateCalls, loadCalls, initPending>>

\* signOut answered with an error: console.error, return
logoutFailed ==
    /\ logoutCalls > 0
    /\ logoutCalls' = logoutCalls - 1
    /\ UNCHANGED <<session, entries, currentView, formVars, editVars, isLoading,
                   loadError, storeVars, envVars, pageVars, loginState,
                   isLoggingIn, loginError, loginCall, deleteVars, submitCall,
                   updateCalls, loadCalls, initPending>>

-----------------------------------------------------------------------------
(* The search box and the pages of the list panel *)

SearchTerms == {EmptyString, <<"T", " ">>, <<"x">>}

\* a search whose re-derivation sorts the record list itself instead of a
\* copy of it
setSearchTermSortsList(term) ==
    /\ currentView = "dashboard"
    /\ term # searchTerm
    /\ searchTerm' = term
    /\ currentPage' = 1
    /\ entries' = sortedByDate(entries)
    /\ UNCHANGED <<now, tz, session, currentView, formState, imageFile,
                   formError, isSubmitting, editingEntryId, editDraft,
                   isUpdating, editError, isLoading, loadError, trades, blobs,
                   nextId, submitCall, updateCalls, loadCalls, initPending,
                   nextPath, authVars, deleteVars, summaryRange,
                   calendarMonth>>

\* onChange={(event) => setSearchTerm(event.target.value)}, and the effect
\* on searchTerm: setCurrentPage(1)
setSearchTerm(term) ==
    /\ currentView = "dashboard"
    /\ term # searchTerm
    /\ searchTerm' = term
    /\ currentPage' = 1
    /\ UNCHANGED <<viewOther, summaryRange, calendarMonth>>

\* setCurrentPage(prev => Math.max(1, prev - 1))
goToPrevPage ==
    /\ listShown # << >>
    /\ Len(filteredEntries) > PAGE_SIZE
    /\ currentPage # 1
    /\ currentPage' = IF currentPage - 1 > 1 THEN currentPage - 1 ELSE 1
    /\ UNCHANGED <<viewOther, summaryRange, calendarMonth, searchTerm>>

\* setCurrentPage(prev => Math.min(totalPages, prev + 1))
goToNextPage ==
    /\ listShown # << >>
    /\ Len(filteredEntries) > PAGE_SIZE
    /\ currentPage # totalPages
    /\ currentPage' = IF currentPage + 1 < totalPages THEN currentPage + 1
                      ELSE totalPages
    /\ UNCHANGED <<viewOther, summaryRange, calendarMonth, searchTerm>>

\* a loaded list of n records: every other one of today, the others of the
\* year before; every third one of another ticker
ListedRecords(n) ==
    [i \in 1..n |->
        Entry(n + 1 - i,
              IF i % 2 = 1 THEN <<2024, 3, 1>> ELSE <<2023, 3, 1>>,
              IF i % 3 = 0 THEN <<"U">> ELSE <<"T">>,
              EmptyString, Num(100), NoString, NoString, NoPath, 0)]

InitView ==
    /\ tz \in {540}
    /\ now \in Instants({<<2024, 3, 1>>}, {630}, tz)
    /\ \E n \in {0, MaxListed} : LoadedState(ListedRecords(n))

NextView ==
    \/ \E r \in Ranges : setSummaryRange(r)
    \/ \E term \in SearchTerms : setSearchTerm(term)
    \/ goToPrevPage
    \/ goToNextPage
    \/ goToPrevMonth
    \/ goToNextMonth
    \/ goToCurrentMonth

SpecView == InitView /\ [][NextView]_vars

-----------------------------------------------------------------------------
(* The program: the pages of a list that shrinks *)

\* one record more than a page holds; of the records shown the first and
\* the last can be deleted, until a single page of records is left
InitPages ==
    /\ tz \in {540}
    /\ now \in Instants({<<2024, 3, 1>>}, {630}, tz)
    /\ LoadedState(ListedRecords(MaxListed - PAGE_SIZE))

NextPages ==
    \/ \E r \in Ranges : setSummaryRange(r)
    \/ \E term \in SearchTerms : setSearchTerm(term)
    \/ goToPrevPage
    \/ goToNextPage
    \/ /\ Len(entries) - Cardinality(deleteCalls) > PAGE_SIZE
       /\ \E i \in {1, Len(listShown)} :
             /\ i \in 1..Len(listShown)
             /\ handleDeleteEntry(listShown[i], TRUE)
    \/ \E call \in deleteCalls : deleteOk(call)

SpecPages == InitPages /\ [][NextPages]_vars

-----------------------------------------------------------------------------
(* The program: the session at start, the list and the new-entry form *)

StoreDates == {<<2024, 3, 1>>}
StoreProfits == {NullNum, Num(100)}

Init ==
    /\ tz \in {540}
    /\ now \in Instants({<<2024, 3, 1>>}, {630}, tz)
    /\ InitialState
    /\ trades \in EntryLists(1, StoreDates, StoreProfits)
    /\ blobs = {}
    /\ nextId = Len(trades) + 1
    /\ nextPath = 1

Next ==
    \/ \E s \in {NoSession, "u1"} : initSession(s)
    \/ \E call \in loadCalls : loadEntriesOk(call)
    \/ \E call \in loadCalls : loadEntriesFailed(call)
    \/ openFormScreen
    \/ cancelForm
    \/ \E d \in StoreDates, p \in ProfitInputs : handleInputChange(d, p)
    \/ \E f \in BOOLEAN : handleImageChange(f)
    \/ handleSubmit
    \/ uploadOk
    \/ \E m \in UploadMessages : uploadFailed(m)
    \/ \E stamp \in Stamps : insertCommit(stamp)
    \/ insertOk
    \/ \E o \in Failures : insertFailed(o)

Spec == Init /\ [][Next]_vars

\* every call of handleSubmit is answered: an await of the handler resumes
\* once its promise settles
SubmitAnswered ==
    \/ uploadOk
    \/ \E m \in UploadMessages : uploadFailed(m)
    \/ \E stamp \in Stamps : insertCommit(stamp)
    \/ insertOk
    \/ \E o \in Failures : insertFailed(o)

\* the form of a logged-in user with an empty list, and its submissions
InitSubmit ==
    /\ tz \in {540}
    /\ now \in Instants({<<2024, 3, 1>>}, {630}, tz)
    /\ LoadedState(<< >>)

NextSubmit ==
    \/ openFormScreen
    \/ cancelForm
    \/ \E f \in BOOLEAN : handleImageChange(f)
    \/ handleSubmit
    \/ SubmitAnswered

SpecAnswered == InitSubmit /\ [][NextSubmit]_vars /\ WF_vars(SubmitAnswered)

-----------------------------------------------------------------------------
(* The program: a loaded list and the edit modal *)

\* the lists loaded at the start: one record, and two records of which the
\* newer one holds an image
StoredLists ==
    {<<Entry(1, <<2024, 3, 1>>, <<"T">>, EmptyString, NullNum, NoString,
             NoString, NoPath, 0)>>,
     <<Entry(2, <<2024, 3, 1>>, <<"T">>, EmptyString, Num(100), NoString,
             NoString, 2, 0),
       Entry(1, <<2024, 2, 29>>, <<"T">>, EmptyString, NullNum, NoString,
             NoString, NoPath, 0)>>}

InitEdit ==
    /\ tz \in {540}
    /\ now \in Instants({<<2024, 3, 1>>}, {630}, tz)
    /\ \E rows \in StoredLists : LoadedState(rows)

NextEdit ==
    \/ \E s \in {NoSession, "u1"} : onAuthStateChange(s)
    \/ \E call \in loadCalls : loadEntriesOk(call)
    \/ \E call \in loadCalls : loadEntriesFailed(call)
    \/ \E i \in 1..Len(entries) : openEditEntry(entries[i])
    \/ closeEditEntry
    \/ \E r \in EditReasons : handleEditChange("reason", r)
    \/ \E r \in EditReflections : handleEditChange("reflection", r)
    \/ \E p \in EditInputs : handleEditChange("realizedProfitInput", p)
    \/ handleSaveEdit
    \/ \E call \in updateCalls, stamp \in Stamps : updateOk(call, stamp)
    \/ \E call \in updateCalls, o \in Failures : updateFailed(call, o)

SpecEdit == InitEdit /\ [][NextEdit]_vars

-----------------------------------------------------------------------------
(* The program: two listed records and the edit modal *)

\* two records of today, both in the daily range the list panel starts with
ListedPair ==
    <<Entry(2, <<2024, 3, 1>>, <<"T">>, EmptyString, Num(100), NoString,
            NoString, NoPath, 0),
      Entry(1, <<2024, 3, 1>>, <<"T">>, EmptyString, NullNum, NoString,
            NoString, NoPath, 0)>>

InitModal ==
    /\ tz \in {540}
    /\ now \in Instants({<<2024, 3, 1>>}, {630}, tz)
    /\ LoadedState(ListedPair)

NextModal ==
    \/ \E i \in 1..Len(entries) : openEditEntry(entries[i])
    \/ closeEditEntry
    \/ \E r \in EditReasons : handleEditChange("reason", r)
    \/ \E p \in EditInputs : handleEditChange("realizedProfitInput", p)
    \/ handleSaveEdit
    \/ \E call \in updateCalls, stamp \in Stamps : updateOk(call, stamp)
    \/ \E call \in updateCalls, o \in Failures : updateFailed(call, o)

SpecModal == InitModal /\ [][NextModal]_vars

-----------------------------------------------------------------------------
(* The program: a loaded list and handleDeleteEntry *)

InitDelete ==
    /\ tz \in {540}
    /\ now \in Instants({<<2024, 3, 1>>}, {630}, tz)
    /\ \E rows \in StoredLists : LoadedState(rows)

NextDelete ==
    \/ \E s \in {NoSession, "u1"} : onAuthStateChange(s)
    \/ \E call \in loadCalls : loadEntriesOk(call)
    \/ \E call \in loadCalls : loadEntriesFailed(call)
    \/ \E i \in 1..Len(entries), c \in BOOLEAN : handleDeleteEntry(entries[i], c)
    \/ \E call \in deleteCalls : deleteOk(call)
    \/ \E call \in deleteCalls : deleteFailed(call)
    \/ \E call \in deleteCalls : removeOk(call)
    \/ \E call \in deleteCalls : removeFailed(call)

SpecDelete == InitDelete /\ [][NextDelete]_vars

-----------------------------------------------------------------------------
(* The program: the session, handleLoginSubmit and handleLogout *)

InitSession ==
    /\ tz \in {540}
    /\ now \in Instants({<<2024, 3, 1>>}, {630}, tz)
    /\ InitialState
    /\ trades \in EntryLists(1, StoreDates, {NullNum})
    /\ blobs = {}
    /\ nextId = Len(trades) + 1
    /\ nextPath = 1

NextSession ==
    \/ \E s \in {NoSession, "u1"} : initSession(s)
    \/ \E s \in {NoSession, "u1"} : onAuthStateChange(s)
    \/ \E call \in loadCalls : loadEntriesOk(call)
    \/ \E call \in loadCalls : loadEntriesFailed(call)
    \/ openDashboard
    \/ openCalendarScreen
    \/ openLogin
    \/ \E e \in LoginEmails : handleLoginChange("email", e)
    \/ \E p \in LoginPasswords : handleLoginChange("password", p)
    \/ handleLoginSubmit
    \/ loginOk
    \/ \E m \in LoginMessages : loginFailed(m)
    \/ handleLogout
    \/ logoutOk
    \/ logoutFailed

SpecSession == InitSession /\ [][NextSession]_vars

-----------------------------------------------------------------------------
(* The calendar by the rules of the Gregorian calendar, for reference *)

IsLeapYear(y) == (y % 4 = 0 /\ y % 100 # 0) \/ y % 400 = 0

DaysInMonth(y, m) ==
    IF m = 2 THEN (IF IsLeapYear(y) THEN 29 ELSE 28)
    ELSE IF m \in {4, 6, 9, 11} THEN 30 ELSE 31

\* the day of the week of a date, Sunday = 0
Weekday(y, m, d) ==
    LET t == <<0, 3, 2, 5, 0, 3, 5, 1, 4, 6, 2, 4>>
        yy == IF m < 3 THEN y - 1 ELSE y
    IN  (yy + yy \div 4 - yy \div 100 + yy \div 400 + t[m] + d) % 7

\* the local date of a time value, as a triple
LocalDate(t) == dateKey(t, tz)

targetYear == GetFullYear(calendarMonth, tz)
targetMonth == GetMonth(calendarMonth, tz) + 1

LeadingCount(cells) ==
    Cardinality({i \in 1..Len(cells) : \A j \in 1..i : cells[j].isPlaceholder})
TrailingCount(cells) ==
    Cardinality({i \in 1..Len(cells) : \A j \in i..Len(cells) : cells[j].isPlaceholder})
DayCells(cells) == SelectSeq(cells, LAMBDA c : ~c.isPlaceholder)

RECURSIVE SumSeq(_)
SumSeq(q) == IF q = << >> THEN 0 ELSE Head(q) + SumSeq(Tail(q))

\* the profits of the records of the list that carry one
ProfitsOf(es) ==
    LET withProfit == SelectSeq(es, LAMBDA e : ~IsNull(e.realizedProfit))
    IN  [i \in 1..Len(withProfit) |-> Val(withProfit[i].realizedProfit)]

-----------------------------------------------------------------------------
(* Claims on the calendar (SpecCalendar) *)

\* C1: the cells of every month are (weekday of day 1) leading placeholders,
\* then one day cell per day 1..last day in ascending order, then trailing
\* placeholders; the cell count is a multiple of 7 and the day cells are as
\* many as the month has days.
C1_MonthGrid ==
    \A cells \in {calendarCells} :
    \A lead \in {Weekday(targetYear, targetMonth, 1)} :
    \A n \in {DaysInMonth(targetYear, targetMonth)} :
        /\ Len(cells) % 7 = 0
        /\ Len(cells) >= lead + n
        /\ \A i \in 1..lead : cells[i].isPlaceholder
        /\ \A d \in 1..n : /\ ~cells[lead + d].isPlaceholder
                           /\ cells[lead + d].day = d
                           /\ cells[lead + d].key = <<targetYear, targetMonth, d>>
        /\ \A i \in (lead + n + 1)..Len(cells) : cells[i].isPlaceholder
        /\ Len(DayCells(cells)) = n

\* a month with placeholders on both sides of its days
C1_Witness ==
    /\ targetYear = 2024 /\ targetMonth = 3
    /\ \E cells \in {calendarCells} :
          /\ LeadingCount(cells) = 5
          /\ TrailingCount(cells) = 6
          /\ Len(cells) = 42

\* C2 as stated: a month of 30 days that starts on a Friday has 5 leading
\* placeholders, 30 day cells and trailing placeholders up to 42 cells.
C2_Original ==
    (DaysInMonth(targetYear, targetMonth) = 30
        /\ Weekday(targetYear, targetMonth, 1) = 5)
    => \A cells \in {calendarCells} :
          /\ LeadingCount(cells) = 5
          /\ Len(DayCells(cells)) = 30
          /\ TrailingCount(cells) = 7
          /\ Len(cells) = 42

\* C2 as amended: a month of 30 days that starts on a Friday has 5 leading
\* placeholders, 30 day cells and no trailing placeholder: 35 cells, which
\* is a multiple of 7 already.
C2_ThirtyDaysFromFriday ==
    (DaysInMonth(targetYear, targetMonth) = 30
        /\ Weekday(targetYear, targetMonth, 1) = 5)
    => \A cells \in {calendarCells} :
          /\ LeadingCount(cells) = 5
          /\ Len(DayCells(cells)) = 30
          /\ TrailingCount(cells) = 0
          /\ Len(cells) = 35

\* November 2024: 30 days, the first a Friday
C2_Witness ==
    /\ targetYear = 2024 /\ targetMonth = 11
    /\ DaysInMonth(targetYear, targetMonth) = 30
    /\ Weekday(targetYear, targetMonth, 1) = 5
    /\ Len(calendarCells) = 35

\* C3 as stated: the profit of each day cell is the sum of realizedProfit
\* over the records dated that day that carry a profit, and null when no
\* record of that day carries one.
C3_CellProfit ==
    \A cells \in {calendarCells} :
    \A i \in 1..Len(cells) :
        LET c == cells[i]
            ofDay == SelectSeq(entries, LAMBDA e : e.tradeDate = <<targetYear, targetMonth, c.day>>)
        IN  ~c.isPlaceholder =>
                c.profit = (IF ProfitsOf(ofDay) = << >> THEN NullNum
                            ELSE Num(SumSeq(ProfitsOf(ofDay))))

\* the per-day nets: the profits the day cells show
DayNets(cells) ==
    LET shown == SelectSeq(DayCells(cells), LAMBDA c : ~IsNull(c.profit))
    IN  [i \in 1..Len(shown) |-> Val(shown[i].profit)]

\* C4: gains is the sum of the positive per-day nets, losses the sum of the
\* negative ones, losses <= 0 <= gains and net = gains + losses.
C4_SummaryOverDays ==
    \A nets \in {DayNets(calendarCells)} :
    \A summary \in {monthSummary} :
        /\ summary.gains = SumSeq(SelectSeq(nets, LAMBDA v : v > 0))
        /\ summary.losses = SumSeq(SelectSeq(nets, LAMBDA v : v < 0))
        /\ summary.losses <= 0
        /\ summary.gains >= 0
        /\ summary.net = summary.gains + summary.losses

\* a day with the records +500 and -200: 300 of gains, no loss
C4_Witness ==
    /\ Len(entries) = 2
    /\ entries[1].tradeDate = entries[2].tradeDate
    /\ entries[1].realizedProfit = Num(500)
    /\ entries[2].realizedProfit = Num(0 - 200)
    /\ monthSummary = [gains |-> 300, losses |-> 0, net |-> 300]

-----------------------------------------------------------------------------
(* Claims on the range filter (SpecRange) *)

\* the position i of the record list is kept by the filter
Kept(i) == \E j \in 1..Len(summaryEntries) : summaryEntries[j] = entries[i]

\* the window of a range as calendar dates, by the rules of the calendar
DateWindow(range, today) ==
    CASE range = "daily" -> [start |-> today, end |-> today]
      [] range = "monthly" ->
           [start |-> <<today[1], today[2], 1>>,
            end |-> <<today[1], today[2], DaysInMonth(today[1], today[2])>>]
      [] range = "yearly" ->
           [start |-> <<today[1], 1, 1>>, end |-> <<today[1], 12, 31>>]

\* C5 as stated: under daily, monthly and yearly a record is kept if and
\* only if the date written in its tradeDate lies in the window of the
\* range, whatever the local time zone.
C5_WindowByWrittenDate ==
    (summaryRange \in {"daily", "monthly", "yearly"}) =>
        LET w == DateWindow(summaryRange, LocalDate(now))
        IN  \A i \in 1..Len(entries) :
                Kept(i) <=> (DateOrd(w.start) <= DateOrd(entries[i].tradeDate)
                             /\ DateOrd(entries[i].tradeDate) <= DateOrd(w.end))

\* C6: the weekly window starts on a Sunday, ends 6 days later and holds
\* today.
C6_WeeklyWindow ==
    (summaryRange = "weekly" /\ Len(entries) > 0) =>
        LET w == RangeWindow("weekly", now, tz)
            s == LocalDate(w.start)
        IN  /\ Weekday(s[1], s[2], s[3]) = 0
            /\ w.start = SetHoursZero(w.start, tz)
            /\ w.end - w.start = 6 * MinPerDay
            /\ w.start <= SetHoursZero(now, tz)
            /\ SetHoursZero(now, tz) <= w.end

\* a week that crosses the end of the year
C6_Witness ==
    /\ summaryRange = "weekly" /\ Len(entries) > 0
    /\ LocalDate(now) = <<2024, 1, 1>>
    /\ LocalDate(RangeWindow("weekly", now, tz).start) = <<2023, 12, 31>>
    /\ LocalDate(RangeWindow("weekly", now, tz).end) = <<2024, 1, 6>>

\* C7: the range "all" returns the records in their order, and an empty
\* record list gives an empty list under every range.
C7_AllIsIdentity ==
    /\ summaryRange = "all" => summaryEntries = entries
    /\ Len(entries) = 0 => summaryEntries = << >>

\* two records, not in date order, one of another year than today
C7_Witness ==
    /\ summaryRange = "all"
    /\ Len(entries) = 2
    /\ DateOrd(entries[1].tradeDate) < DateOrd(entries[2].tradeDate)
    /\ entries[2].tradeDate[1] # LocalDate(now)[1]
    /\ summaryEntries = entries

-----------------------------------------------------------------------------
(* Claims on the analytics (SpecAnalytics) *)

Wins(es) == Len(SelectSeq(ProfitsOf(es), LAMBDA v : v > 0))

\* C8: totalTrades counts the records, the sample count those with a
\* profit, totalProfit sums their profits, and with samples the win rate is
\* the records of positive profit over the samples.
C8_Analytics ==
    LET se == summaryEntries
        a == analytics
    IN  /\ a.totalTrades = Len(se)
        /\ a.winSampleCount = Len(ProfitsOf(se))
        /\ a.totalProfit = SumSeq(ProfitsOf(se))
        /\ a.winSampleCount > 0 =>
              /\ ~IsNull(a.winRate)
              /\ Val(a.winRate).den # 0
              /\ SameNumber(Val(a.winRate), Quot(Wins(se), Len(ProfitsOf(se))))

\* the records 100, -50 and one without profit
C8_Witness ==
    /\ Len(summaryEntries) = 3
    /\ summaryEntries[1].realizedProfit = Num(100)
    /\ summaryEntries[2].realizedProfit = Num(0 - 50)
    /\ summaryEntries[3].realizedProfit = NullNum
    /\ analytics.totalTrades = 3
    /\ analytics.totalProfit = 50
    /\ analytics.winSampleCount = 2
    /\ SameNumber(Val(analytics.winRate), Quot(1, 2))

\* C9 as stated: with no profit sample the win rate is null.
C9_Original ==
    analytics.winSampleCount = 0 => IsNull(analytics.winRate)

\* C9 as amended: with no profit sample the win rate is the number 0, and
\* the analytics of no record are 0 trades, 0 profit, win rate 0, 0 samples.
C9_ZeroWinRate ==
    /\ analytics.winSampleCount = 0 =>
          /\ ~IsNull(analytics.winRate)
          /\ Val(analytics.winRate).den # 0
          /\ SameNumber(Val(analytics.winRate), Quot(0, 1))
    /\ Len(summaryEntries) = 0 =>
          analytics = [totalTrades |-> 0, totalProfit |-> 0,
                       winRate |-> Num(Quot(0, 1)), winSampleCount |-> 0]

\* records, none with a profit
C9_Witness ==
    /\ Len(summaryEntries) = 2
    /\ \A i \in 1..2 : IsNull(summaryEntries[i].realizedProfit)
    /\ analytics.totalTrades = 2
    /\ analytics.winSampleCount = 0

-----------------------------------------------------------------------------
(* Claims on the store calls (Spec) *)

\* C10 as stated: a step in which handleSubmit finishes after a failed
\* insert, or handleSaveEdit after a failed update, leaves the record list
\* as it was and leaves formError, respectively editError, non-empty.
C10_FailureKeepsList ==
    [][/\ (\E o \in Failures : insertFailed(o))
            => (entries' = entries /\ formError' # "")
       /\ (\E call \in updateCalls, o \in Failures : updateFailed(call, o))
            => (entries' = entries /\ editError' # "")]_vars

\* C11: a step in which the upload of handleSubmit ends without the image
\* stored ends the submission with no insert issued (no call is left in
\* flight, the rows of the store are as before), shows the upload error in
\* formError and leaves formState, the selected image file, the view and
\* the record list as they were.
C11_UploadFailureAborts ==
    [][(submitCall.pc = "upload" /\ submitCall'.pc # "upload" /\ blobs' = blobs)
          => /\ submitCall'.pc = "idle"
             /\ trades' = trades
             /\ formError' = "upload failed: request failed"
             /\ formState' = formState
             /\ imageFile' = imageFile
             /\ currentView' = currentView
             /\ entries' = entries]_vars

\* the form after a failed upload: still shown, still filled, the file
\* still selected
C11_Witness ==
    /\ formError = "upload failed: request failed"
    /\ currentView = "newEntry"
    /\ imageFile
    /\ formState.realizedProfit = NumberText(100)
    /\ submitCall.pc = "idle"
    /\ ~isSubmitting

-----------------------------------------------------------------------------
(* Claims on handleDeleteEntry (SpecDelete) *)

\* C12: a step in which the record delete fails leaves the record list, the
\* store's rows and images as they were and issues no image delete; a step
\* that ends handleDeleteEntry after the record delete succeeded, whether
\* the image delete succeeded, failed or was not needed, leaves the list
\* without the record; a declined confirmation issues no call and leaves
\* the list and the store as they were.
C12_DeleteOutcomes ==
    [][/\ \A call \in deleteCalls :
            deleteFailed(call) =>
                /\ entries' = entries
                /\ trades' = trades /\ blobs' = blobs
                /\ \A c \in deleteCalls' : c.n # call.n
       /\ \A call \in deleteCalls :
            (\/ deleteOk(call) /\ call.imagePath = NoPath
             \/ removeOk(call)
             \/ removeFailed(call)) =>
                /\ entries' = withoutId(entries, call.id)
                /\ \A i \in 1..Len(entries') : entries'[i].id # call.id
                /\ \A i \in 1..Len(trades') : trades'[i].id # call.id
       /\ \A i \in 1..Len(entries) :
            handleDeleteEntry(entries[i], FALSE) =>
                /\ entries' = entries
                /\ deleteCalls' = deleteCalls
                /\ trades' = trades /\ blobs' = blobs]_vars

\* record 2 is gone from the list and from the store while its image is
\* still stored (the image delete failed), and a confirmation asked while
\* that call was in flight was declined
C12_Witness ==
    /\ deleteCalls = {}
    /\ 2 \in blobs
    /\ Len(entries) = 1 /\ entries[1].id = 1
    /\ Len(trades) = 1 /\ trades[1].id = 1
    /\ lastDialog = "declined"

-----------------------------------------------------------------------------
(* Claims on a failed load (Spec) *)

\* the statement of C13 as written: a failed load leaves the list empty,
\* loadError set and isLoading false, and an empty list under a load error
\* gets records only by a load that succeeds
C13_Original ==
    [][/\ \A call \in loadCalls :
            loadEntriesFailed(call) =>
                entries' = << >> /\ loadError' # "" /\ ~isLoading'
       /\ (loadError # "" /\ entries = << >> /\ entries' # << >>) =>
            \E call \in loadCalls : loadEntriesOk(call)]_vars

\* C13: a step in which a load fails leaves the record list empty,
\* loadError non-empty and isLoading false; afterwards the empty list gets
\* records only by a step in which a load succeeds or in which a create
\* completes and prepends its record.
C13_FailedLoadEmptiesList ==
    [][/\ \A call \in loadCalls :
            loadEntriesFailed(call) =>
                entries' = << >> /\ loadError' # "" /\ ~isLoading'
       /\ (loadError # "" /\ entries = << >> /\ entries' # << >>) =>
            \/ \E call \in loadCalls : loadEntriesOk(call)
            \/ insertOk]_vars

\* the load has failed: the store holds rows, the list is empty, the error
\* is shown and nothing is in flight
C13_Witness ==
    /\ loadError = "load failed"
    /\ entries = << >>
    /\ trades # << >>
    /\ ~isLoading
    /\ loadCalls = {}
    /\ session # NoSession

-----------------------------------------------------------------------------
(* Claims on calls in flight *)

\* C14: in every reachable state at most one call of the same user-triggered
\* store action is in flight: at most one delete and at most one update, and
\* a create or a sign-in in flight keeps its submit button disabled.
C14_OneCallPerAction ==
    /\ Cardinality(deleteCalls) <= 1
    /\ Cardinality(updateCalls) <= 1
    /\ submitCall.pc # "idle" => isSubmitting
    /\ loginCall.pc # "idle" => isLoggingIn

\* C15: in every reachable state no two records of the local record list
\* have the same id.
C15_UniqueIds ==
    \A i, j \in 1..Len(entries) : entries[i].id = entries[j].id => i = j

-----------------------------------------------------------------------------
(* Claims on the view state (SpecView) *)

\* C16: a step that changes the selected range, the search term, the page
\* number or the calendar month, with the lists derived from them, leaves
\* the record list as it was, contents and order.
C16_ViewKeepsList ==
    [][NextView => entries' = entries]_vars

\* the range, the search term, the page and the month have all been changed
\* and the list is the one that was loaded, which is not in date order
C16_Witness ==
    /\ summaryRange = "all"
    /\ searchTerm = <<"T", " ">>
    /\ currentPage = 2
    /\ calendarMonth # MakeDate(GetFullYear(now, tz), GetMonth(now, tz), 1, tz)
    /\ entries = ListedRecords(MaxListed)
    /\ entries # sortedByDate(entries)
    /\ Len(filteredEntries) > PAGE_SIZE
    /\ Len(paginatedEntries) < PAGE_SIZE

-----------------------------------------------------------------------------
(* Claims on the month view and its inputs (SpecCalendar) *)

\* the records whose tradeDate is written with the target year and month
InTargetMonth(es) ==
    SelectSeq(es, LAMBDA e : e.tradeDate[1] = targetYear /\ e.tradeDate[2] = targetMonth)

\* C17: the records that contribute to the cells and to the summary of the
\* month are those of the full list that carry a profit and whose tradeDate
\* has the target year and month: a day cell shows a profit if and only if
\* such a record is dated that day, and the cells and the summary total
\* the profits of exactly these records.
C17_MonthScoped ==
    \A cells \in {calendarCells} :
    \A ofMonth \in {InTargetMonth(entries)} :
        /\ \A i \in 1..Len(cells) :
              ~cells[i].isPlaceholder =>
                  (~IsNull(cells[i].profit) <=>
                      \E k \in 1..Len(ofMonth) :
                          /\ ~IsNull(ofMonth[k].realizedProfit)
                          /\ ofMonth[k].tradeDate[3] = cells[i].day)
        /\ SumSeq(DayNets(cells)) = SumSeq(ProfitsOf(ofMonth))
        /\ monthSummary.net = SumSeq(ProfitsOf(ofMonth))

\* C18: every day cell of the month view is keyed by the date of its day
\* (year, month, day), not by its position, and has the key it has in the
\* view of the same month without records; each leading placeholder is
\* keyed by its index, each trailing placeholder by its weekday column; and
\* no two cells of a month share a key.
C18_CellKeys ==
    \A cells \in {calendarCells} :
    \A bare \in {calendarCellsOf(<< >>, calendarMonth, calendarMonth, tz)} :
    \A lead \in {Weekday(targetYear, targetMonth, 1)} :
        /\ Len(bare) = Len(cells)
        /\ \A i \in 1..Len(cells) :
              IF cells[i].isPlaceholder
              THEN cells[i].key = (IF i <= lead
                                  THEN <<"placeholder-start", i - 1>>
                                  ELSE <<"placeholder-end", (i - 1) % 7>>)
              ELSE /\ cells[i].key = <<targetYear, targetMonth, cells[i].day>>
                   /\ cells[i].day = i - lead
                   /\ cells[i].key = bare[i].key
        /\ \A i, j \in 1..Len(cells) :
              (cells[i].isPlaceholder = cells[j].isPlaceholder
                  /\ cells[i].key = cells[j].key) => i = j

\* March 2024 with a record: the cell at position 6 is keyed 2024-03-01, the
\* first leading placeholder by index 0, the first trailing one by column 1
C18_Witness ==
    /\ entries # << >>
    /\ \E cells \in {calendarCells} :
          /\ Len(cells) = 42
          /\ cells[1].key = <<"placeholder-start", 0>>
          /\ ~cells[6].isPlaceholder /\ cells[6].key = <<2024, 3, 1>>
          /\ cells[36].key = <<2024, 3, 31>>
          /\ cells[37].key = <<"placeholder-end", 1>>

-----------------------------------------------------------------------------
(* Claims on handleSaveEdit (SpecEdit) *)

\* C19: a step in which the update of the record with id X succeeds leaves
\* the record list with its length and order; every record with another id
\* is as before, and the record with id X differs from before in reason,
\* reflection, realizedProfit and updatedAt at most: its id, tradeDate,
\* ticker, tickerName and imagePath are as before.
C19_UpdateFrame ==
    [][\A call \in updateCalls : \A stamp \in Stamps :
          updateOk(call, stamp) =>
              /\ Len(entries') = Len(entries)
              /\ \A i \in 1..Len(entries) :
                    IF entries[i].id = call.id
                    THEN entries'[i] =
                            [entries[i] EXCEPT
                                !.reason = entries'[i].reason,
                                !.reflection = entries'[i].reflection,
                                !.realizedProfit = entries'[i].realizedProfit,
                                !.updatedAt = entries'[i].updatedAt]
                    ELSE entries'[i] = entries[i]]_vars

\* of two records the one with id 2 has taken a new reason, reflection and
\* time of update, and the one with id 1 is as it was loaded
C19_Witness ==
    /\ Len(entries) = 2
    /\ entries[1].id = 2 /\ entries[2].id = 1
    /\ entries[1].reason # NoString
    /\ entries[1].reflection # NoString
    /\ entries[1].updatedAt = 1
    /\ entries[1].imagePath = 2
    /\ entries[2].reason = NoString /\ entries[2].updatedAt = 0
    /\ updateCalls = {}
    /\ editingEntryId = NoId

-----------------------------------------------------------------------------
(* Claims on the session and the list (SpecSession) *)

\* C20: whenever the session is absent and no store call is in flight, the
\* record list is empty.
C20_LoggedOutListEmpty ==
    (/\ session = NoSession
     /\ loadCalls = {}
     /\ loginCall.pc = "idle"
     /\ logoutCalls = 0
     /\ submitCall.pc = "idle"
     /\ updateCalls = {}
     /\ deleteCalls = {}
     /\ ~initPending) => entries = << >>

-----------------------------------------------------------------------------
(* Claims on the edit session and an update in flight (SpecEdit) *)

\* C21: a step in which the update call for entry A ends, while the edit
\* modal is open for another entry B, leaves B's edit session as it was:
\* editingEntryId is still B and the draft is unchanged.
C21_CompletionKeepsOtherSession ==
    [][\A call \in updateCalls :
          (/\ call \notin updateCalls'
           /\ isOpen
           /\ editingEntryId # call.id) =>
              /\ editingEntryId' = editingEntryId
              /\ editDraft' = editDraft]_vars

-----------------------------------------------------------------------------
(* Claims on the pages of the list panel (SpecPages) *)

\* C22: in every state the current page lies in 1..totalPages, where
\* totalPages is 1 for an empty filtered list and otherwise the number of
\* pages of 20 that hold it, and the page shown holds at most 20 records;
\* every step that changes the search term or the range leaves the current
\* page at 1.
C22_PageInRange ==
    /\ [](\A fe \in {filteredEntries} :
          \A total \in {totalPagesOf(Len(fe))} :
             /\ 1 <= currentPage /\ currentPage <= total
             /\ IF Len(fe) = 0 THEN total = 1
                ELSE 20 * (total - 1) < Len(fe) /\ Len(fe) <= 20 * total
             /\ Len(paginatedEntriesOf(fe, currentPage)) <= 20)
    /\ [][(searchTerm' # searchTerm \/ summaryRange' # summaryRange)
             => currentPage' = 1]_vars

\* the record that stood alone on page 2 under the range all (id 2) has been
\* deleted: the list holds 20 records, all shown on page 1, the only page
C22_Witness ==
    /\ summaryRange = "all"
    /\ searchTerm = EmptyString
    /\ Len(entries) = 20
    /\ deleteCalls = {}
    /\ currentPage = 1
    /\ totalPages = 1
    /\ Len(paginatedEntries) = 20
    /\ \A i \in 1..Len(entries) : entries[i].id # 2

-----------------------------------------------------------------------------
(* Claims on the create submission (SpecAnswered) *)

\* C23: isSubmitting is true in every state in which the upload or the
\* insert of a submission is in flight; every step that ends a submission
\* leaves isSubmitting false; and, its calls being answered, every
\* submission in flight leads to a state with no call in flight and
\* isSubmitting false.
C23_SubmitEnds ==
    /\ [](submitCall.pc # "idle" => isSubmitting)
    /\ [][(submitCall.pc # "idle" /\ submitCall'.pc = "idle")
             => ~isSubmitting']_vars
    /\ (submitCall.pc # "idle") ~> (submitCall.pc = "idle" /\ ~isSubmitting)

\* a submission with an image is in flight, its upload stored and its
\* insert issued, and the form is busy
C23_Witness ==
    /\ submitCall.pc = "insert"
    /\ submitCall.hasImage
    /\ submitCall.imagePath \in blobs
    /\ isSubmitting
    /\ currentView = "newEntry"

-----------------------------------------------------------------------------
(* Claims on the routing of the views (SpecSession) *)

\* C24: in every state with isLoading false, the current view is "login"
\* when the user is not logged in and is not "login" when the user is
\* logged in.
C24_RoutedBySession ==
    ~isLoading => (currentView = "login" <=> ~isLoggedIn)

\* the session was lost after its records were loaded: the user is logged
\* out, nothing is loading and the view has been routed to "login"
C24_Witness ==
    /\ ~isLoggedIn
    /\ ~isLoading
    /\ ~initPending
    /\ loadCalls = {}
    /\ entries # << >>
    /\ currentView = "login"

-----------------------------------------------------------------------------
(* Claims on the images of the create submission (Spec) *)

\* C25: in every state with no submission in flight, every image the
\* submissions have uploaded is the imagePath of a record of the store.
C25_UploadsReferenced ==
    submitCall.pc = "idle" =>
        \A path \in blobs : \E i \in 1..Len(trades) : trades[i].imagePath = path

====
